---- MODULE Spec2Model ----
(***************************************************************************)
(* Agent Guardrails SDK (TypeScript): the authorization decision engine.   *)
(*                                                                         *)
(*   agent.ts     Agent.register / setLimit / allowAction / authorize /    *)
(*                logDecision / getLogs                                    *)
(*   policies.ts  parseTimeWindow, isActionAllowedByRules, ruleMatches,    *)
(*                isWithinLimits                                           *)
(*   storage.ts   JsonFileStorage (one JSON document: agents, logs)        *)
(*                                                                         *)
(* JavaScript strings that the code inspects or converts are sequences of  *)
(* one-character strings; JavaScript numbers that the code adds and        *)
(* compares are IEEE-754 doubles.                                          *)
(***************************************************************************)
EXTENDS Integers, Sequences, FiniteSets, TLC

VARIABLES
    agents,     \* state.json "agents": agent_id -> stored AgentConfig
    logs,       \* state.json "logs": the stored sequence of LogEntry
    config,     \* Agent.config of every Agent object: agent_id -> AgentConfig
    now,        \* the system clock, milliseconds since the epoch
    writtenAt,  \* history: the clock reading at which logs[i] was written
    last,       \* history: the latest call, its inputs and what the caller got
    calls       \* the authorize call each caller is in, and how far it has got

vars == <<agents, logs, config, now, writtenAt, last, calls>>

-----------------------------------------------------------------------------
(* Texts *)

Digits == <<"0", "1", "2", "3", "4", "5", "6", "7", "8", "9">>
IsDigit(c) == \E i \in DOMAIN Digits : Digits[i] = c
DigitValue(c) == (CHOOSE i \in DOMAIN Digits : Digits[i] = c) - 1

USDC == <<"U", "S", "D", "C">>
ETH == <<"E", "T", "H">>
UniswapV3 == <<"U", "n", "i", "s", "w", "a", "p", "V", "3">>
SushiSwap == <<"S", "u", "s", "h", "i", "S", "w", "a", "p">>
UndefinedText == <<"u", "n", "d", "e", "f", "i", "n", "e", "d">>
Wallet == <<"0", "x", "7", "4">>

\* Number.prototype.toString of a non-negative integer
RECURSIVE IntToText(_)
IntToText(n) == IF n < 10 THEN <<Digits[n + 1]>> ELSE IntToText(n \div 10) \o <<Digits[(n % 10) + 1]>>

-----------------------------------------------------------------------------
(* JavaScript values held in params and constraints *)

Undefined == [kind |-> "undefined", s |-> <<>>, n |-> 0]
Str(t) == [kind |-> "string", s |-> t, n |-> 0]
Num(n) == [kind |-> "number", s |-> <<>>, n |-> n]

\* String(v)
String(v) ==
    IF v.kind = "string" THEN v.s
    ELSE IF v.kind = "number" THEN IntToText(v.n)
    ELSE UndefinedText

\* ToBoolean(v), as && and || apply it
Truthy(v) ==
    IF v.kind = "string" THEN v.s # <<>>
    ELSE IF v.kind = "number" THEN v.n # 0
    ELSE FALSE

\* b || a: the operands exchanged
OrSecondFirst(a, b) == IF Truthy(b) THEN b ELSE a

\* a || b
Or(a, b) == IF Truthy(a) THEN a ELSE b

\* an object literal with no own property
EmptyObject == [k \in {} |-> Undefined]
\* params is an object over these property names (an absent property reads
\* undefined), or null
ParamKeys == {"protocol", "asset", "token", "amount", "chain_id"}
NullParams == EmptyObject
IsNull(params) == DOMAIN params = {}
\* obj[key] of an object
Get(obj, key) == IF key \in DOMAIN obj THEN obj[key] ELSE Undefined

\* JSON.parse(JSON.stringify(obj)) of a flat object: a property whose value
\* is undefined is not written
JsonObject(obj) == [k \in {x \in DOMAIN obj : obj[x].kind # "undefined"} |-> obj[k]]

-----------------------------------------------------------------------------
(* IEEE-754 binary64: non-negative finite values and NaN.  A value is      *)
(* (hi * 2^27 + lo) * 2^e with a significand of 53 bits, or zero, or NaN.  *)

MantissaBits == 53
LimbBits == 27
Limb == 2^LimbBits
NaN == [nan |-> TRUE, hi |-> 0, lo |-> 0, e |-> 0]
Zero == [nan |-> FALSE, hi |-> 0, lo |-> 0, e |-> 0]
IsZero(a) == ~a.nan /\ a.hi = 0 /\ a.lo = 0

\* round to nearest, ties to even: the significand (hi, lo), the bit below it
\* (guard) and whether anything non-zero lies below that bit (sticky)
RoundNearestEven(hi, lo, guard, sticky, e) ==
    LET up == guard /\ (sticky \/ lo % 2 = 1)
        lo1 == IF up THEN lo + 1 ELSE lo
        hi1 == hi + (lo1 \div Limb)
    IN IF hi1 = 2^(MantissaBits - LimbBits)
       THEN [nan |-> FALSE, hi |-> hi1 \div 2, lo |-> 0, e |-> e + 1]
       ELSE [nan |-> FALSE, hi |-> hi1, lo |-> lo1 % Limb, e |-> e]

\* (hi, lo) shifted right by d bits: <<hi, lo, a dropped bit was non-zero>>
ShiftRight(hi, lo, d) ==
    IF d = 0 THEN <<hi, lo, FALSE>>
    ELSE IF d < LimbBits
    THEN <<hi \div 2^d, (lo \div 2^d) + (hi % 2^d) * 2^(LimbBits - d), lo % 2^d # 0>>
    ELSE IF d < 2 * LimbBits + 2
    THEN <<0, hi \div 2^(d - LimbBits), lo # 0 \/ hi % 2^(d - LimbBits) # 0>>
    ELSE <<0, 0, hi # 0 \/ lo # 0>>

\* a + b for a.e >= b.e, computed in units of half an ulp of a
FAddOrdered(a, b) ==
    LET a2hi == 2 * a.hi + ((2 * a.lo) \div Limb)
        a2lo == (2 * a.lo) % Limb
        b2hi == 2 * b.hi + ((2 * b.lo) \div Limb)
        b2lo == (2 * b.lo) % Limb
        s == ShiftRight(b2hi, b2lo, a.e - b.e)
        tlo == (a2lo + s[2]) % Limb
        thi == a2hi + s[1] + ((a2lo + s[2]) \div Limb)
    IN IF thi >= Limb
       THEN LET r == ShiftRight(thi, tlo, 2)
            IN RoundNearestEven(r[1], r[2], (tlo \div 2) % 2 = 1, tlo % 2 = 1 \/ s[3], a.e + 1)
       ELSE LET r == ShiftRight(thi, tlo, 1)
            IN RoundNearestEven(r[1], r[2], tlo % 2 = 1, s[3], a.e)

\* a + b
FAdd(a, b) ==
    IF a.nan \/ b.nan THEN NaN
    ELSE IF IsZero(a) THEN b
    ELSE IF IsZero(b) THEN a
    ELSE IF a.e >= b.e THEN FAddOrdered(a, b) ELSE FAddOrdered(b, a)

\* a <= b (false when either is NaN)
FLe(a, b) ==
    /\ ~a.nan
    /\ ~b.nan
    /\ \/ IsZero(a)
       \/ /\ ~IsZero(b)
          /\ \/ a.e < b.e
             \/ a.e = b.e /\ (a.hi < b.hi \/ (a.hi = b.hi /\ a.lo <= b.lo))

\* a < b (false when either is NaN)
FLt(a, b) == ~a.nan /\ ~b.nan /\ ~FLe(b, a)

\* n bits of the quotient of r * 2^n by d: <<quotient, remainder>>
RECURSIVE DivBits(_, _, _)
DivBits(r, d, n) ==
    IF n = 0 THEN <<0, r>>
    ELSE LET c == IF n < 7 THEN n ELSE 7
             rest == DivBits((r * 2^c) % d, d, n - c)
         IN <<((r * 2^c) \div d) * 2^(n - c) + rest[1], rest[2]>>

\* the double nearest to num / den
FromRatio(num, den) ==
    IF num = 0 THEN Zero
    ELSE LET p == IF num >= den
                  THEN CHOOSE k \in 0..30 : den * 2^k <= num /\ num < den * 2^(k + 1)
                  ELSE -(CHOOSE k \in 1..30 : den <= num * 2^k /\ num * 2^k < 2 * den)
             a == IF p < 0 THEN num * 2^(-p) ELSE num
             b == IF p < 0 THEN den ELSE den * 2^p
             h == DivBits(a - b, b, LimbBits - 1)
             l == DivBits(h[2], b, LimbBits)
             qhi == 2^(LimbBits - 1) + h[1]
         IN RoundNearestEven(qhi \div 2, (qhi % 2) * 2^(LimbBits - 1) + (l[1] \div 2),
                             l[1] % 2 = 1, l[2] # 0, p - (MantissaBits - 1))

\* the leading run of decimal digits of t from position i on
RECURSIVE DigitRun(_, _)
DigitRun(t, i) ==
    IF i <= Len(t) /\ IsDigit(t[i]) THEN <<t[i]>> \o DigitRun(t, i + 1) ELSE <<>>

\* the number a run of decimal digits writes
RECURSIVE DigitsToInt(_)
DigitsToInt(d) ==
    IF d = <<>> THEN 0 ELSE 10 * DigitsToInt(SubSeq(d, 1, Len(d) - 1)) + DigitValue(d[Len(d)])

\* the decimal literal parseFloat reads at the start of t: its integer digits
\* and, after a ".", its fraction digits; whatever follows is ignored
DecimalPrefix(t) ==
    LET int == DigitRun(t, 1)
        frac == IF Len(t) > Len(int) /\ t[Len(int) + 1] = "." THEN DigitRun(t, Len(int) + 2) ELSE <<>>
    IN [int |-> int, frac |-> frac]

\* parseFloat(t): NaN when t does not start with a decimal literal
parseFloat(t) ==
    LET d == DecimalPrefix(t)
    IN IF d.int = <<>> /\ d.frac = <<>> THEN NaN
       ELSE FromRatio(DigitsToInt(d.int \o d.frac), 10^Len(d.frac))

-----------------------------------------------------------------------------
(* policies.ts *)

SecondsPerHour == 3600
SecondsPerDay == 86400
MsPerSecond == 1000

\* -1 stands for the Error parseTimeWindow throws
InvalidWindow == -1

\* /^(\d+)([hd])$/i, then parseInt(match[1], 10) * 3600 or * 86400
parseTimeWindow(window) ==
    LET n == Len(window)
        matches == /\ n >= 2
                   /\ window[n] \in {"h", "d", "H", "D"}
                   /\ \A i \in 1..(n - 1) : IsDigit(window[i])
        amount == DigitsToInt(SubSeq(window, 1, n - 1))
    IN IF ~matches THEN InvalidWindow
       ELSE IF window[n] \in {"h", "H"} THEN amount * SecondsPerHour
       ELSE amount * SecondsPerDay

\* ruleMatches(rule, params): "true", "false", or "throw" for the TypeError
\* that reading a property of null raises
ruleMatches(rule, params) ==
    IF DOMAIN rule.constraints = {} THEN "true"
    ELSE IF IsNull(params) THEN "throw"
    ELSE IF \A key \in DOMAIN rule.constraints :
                String(Get(params, key)) = String(rule.constraints[key])
    THEN "true"
    ELSE "false"

\* the for loop of isActionAllowedByRules over relevantRules, from rule i on
RECURSIVE AnyRuleMatches(_, _, _)
AnyRuleMatches(relevantRules, params, i) ==
    IF i > Len(relevantRules) THEN "false"
    ELSE LET m == ruleMatches(relevantRules[i], params)
         IN IF m = "false" THEN AnyRuleMatches(relevantRules, params, i + 1) ELSE m

\* isActionAllowedByRules(actionType, params, rules): "true", "false" or "throw"
isActionAllowedByRules(actionType, params, rules) ==
    LET relevantRules == SelectSeq(rules, LAMBDA r : r.action_type = actionType)
    IN IF Len(relevantRules) = 0 THEN "false"
       ELSE AnyRuleMatches(relevantRules, params, 1)

\* toISOString() with the milliseconds removed: whole seconds since the epoch
IsoSeconds(ms) == ms \div MsPerSecond
\* new Date(timestamp).getTime()
DateOf(timestamp) == timestamp * MsPerSecond

\* the loop of isWithinLimits without its `if (!log.allowed) continue`
SpentCountingDenied(log, asset, windowStart) ==
    LET logAsset == Or(Get(log.params, "asset"), Get(log.params, "token"))
        logAmount == Get(log.params, "amount")
    IN IF DateOf(log.timestamp) < windowStart THEN Zero
       ELSE IF logAsset # asset THEN Zero
       ELSE IF logAmount.kind = "undefined" THEN Zero
       ELSE parseFloat(String(logAmount))

\* the loop of isWithinLimits without its `if (logTime < windowStart) continue`
SpentIgnoringWindow(log, asset, windowStart) ==
    LET logAsset == Or(Get(log.params, "asset"), Get(log.params, "token"))
        logAmount == Get(log.params, "amount")
    IN IF ~log.allowed THEN Zero
       ELSE IF logAsset # asset THEN Zero
       ELSE IF logAmount.kind = "undefined" THEN Zero
       ELSE parseFloat(String(logAmount))

\* what one log entry adds to totalSpent in the loop of isWithinLimits
\* (Zero when the entry is skipped)
Spent(log, asset, windowStart) ==
    LET logAsset == Or(Get(log.params, "asset"), Get(log.params, "token"))
        logAmount == Get(log.params, "amount")
    IN IF ~log.allowed THEN Zero
       ELSE IF DateOf(log.timestamp) < windowStart THEN Zero
       ELSE IF logAsset # asset THEN Zero
       ELSE IF logAmount.kind = "undefined" THEN Zero
       ELSE parseFloat(String(logAmount))

\* totalSpent after the first i entries of allLogs
RECURSIVE TotalSpent(_, _, _, _)
TotalSpent(allLogs, i, asset, windowStart) ==
    IF i = 0 THEN Zero
    ELSE FAdd(TotalSpent(allLogs, i - 1, asset, windowStart), Spent(allLogs[i], asset, windowStart))

\* an isWithinLimits that compares what was spent, without the amount asked
\* for, with the maximum
isWithinLimitsBeforeRequest(asset, amount, limitCfg, allLogs, nowMs) ==
    IF asset # Str(limitCfg.asset) THEN FALSE
    ELSE LET windowStart == nowMs - limitCfg.window_seconds * MsPerSecond
             totalSpent == TotalSpent(allLogs, Len(allLogs), asset, windowStart)
             limitAmount == parseFloat(limitCfg.amount)
         IN FLe(totalSpent, limitAmount)

\* isWithinLimits(asset, amount, limitCfg, storage, agentId, now), given the
\* entries storage.getLogs(agentId) returned
isWithinLimits(asset, amount, limitCfg, allLogs, nowMs) ==
    IF asset # Str(limitCfg.asset) THEN FALSE
    ELSE LET windowStart == nowMs - limitCfg.window_seconds * MsPerSecond
             totalSpent == TotalSpent(allLogs, Len(allLogs), asset, windowStart)
             requestAmount == parseFloat(amount)
             limitAmount == parseFloat(limitCfg.amount)
         IN FLe(FAdd(totalSpent, requestAmount), limitAmount)

-----------------------------------------------------------------------------
(* storage.ts: JsonFileStorage *)

\* an AllowRule as JSON.stringify writes it and JSON.parse reads it back
JsonRule(rule) == [action_type |-> rule.action_type, constraints |-> JsonObject(rule.constraints)]
\* an AgentConfig after the same round trip
JsonConfig(cfg) ==
    [cfg EXCEPT !.allow_rules = [i \in DOMAIN cfg.allow_rules |-> JsonRule(cfg.allow_rules[i])]]

\* saveAgent(config): data.agents[config.agent_id] = config, on the document
saveAgent(stored, cfg) ==
    [a \in DOMAIN stored \cup {cfg.agent_id} |->
        IF a = cfg.agent_id THEN JsonConfig(cfg) ELSE stored[a]]

\* appendLog with unshift in the place of push
appendLogAtFront(stored, logEntry) == <<logEntry>> \o stored

\* appendLog writing back the document it read, the push left out
appendLogWithoutPush(stored, logEntry) == stored

\* appendLog(logEntry): data.logs.push(logEntry)
appendLog(stored, logEntry) == Append(stored, logEntry)

\* a getLogs that does not filter by agentId
getLogsOfAllAgents(stored, agentId, limit) ==
    IF Truthy(limit) /\ limit.n > 0
    THEN SubSeq(stored, IF Len(stored) > limit.n THEN Len(stored) - limit.n + 1 ELSE 1, Len(stored))
    ELSE stored

\* getLogs(agentId, limit): limit is undefined or a number
getLogs(stored, agentId, limit) ==
    LET own == SelectSeq(stored, LAMBDA log : log.agent_id = agentId)
    IN IF Truthy(limit) /\ limit.n > 0
       THEN SubSeq(own, IF Len(own) > limit.n THEN Len(own) - limit.n + 1 ELSE 1, Len(own))
       ELSE own

-----------------------------------------------------------------------------
(* agent.ts: what a call leaves for its caller *)

NoFault == [read |-> FALSE, log1 |-> FALSE, log2 |-> FALSE]
NoReason ==
    [text |-> "undefined", asset |-> <<>>, amount |-> <<>>, window |-> 0, error |-> ""]
NoCall ==
    [op |-> "none", agent |-> "", result |-> "void", action_type |-> "",
     params |-> NullParams, at |-> 0, path |-> "", checked |-> FALSE, nlogs |-> 0,
     readFailed |-> FALSE, log1Failed |-> FALSE, log2Failed |-> FALSE,
     entries |-> <<>>, seconds |-> 0]

\* 'Action not in allowlist'
ReasonNotInAllowlist ==
    [text |-> "Action not in allowlist", asset |-> <<>>, amount |-> <<>>, window |-> 0,
     error |-> ""]
\* `Exceeds ${asset} limit of ${limitCfg.amount} per ${limitCfg.window_seconds}s`
ReasonExceeds(asset, limitCfg) ==
    [text |-> "Exceeds limit", asset |-> String(asset), amount |-> limitCfg.amount,
     window |-> limitCfg.window_seconds, error |-> ""]
\* `Error during authorization: ${errorMessage}`
ReasonError(errorMessage) ==
    [text |-> "Error during authorization", asset |-> <<>>, amount |-> <<>>, window |-> 0,
     error |-> errorMessage]

-----------------------------------------------------------------------------
(* agent.ts: Agent *)

Registered == DOMAIN config

\* Agent.register({wallet, storage}): uuidv4() yields an identifier not in use
Register(a) ==
    /\ a \notin Registered
    /\ LET cfg == [agent_id |-> a, wallet |-> Wallet, limits |-> EmptyObject,
                   allow_rules |-> <<>>]
       IN /\ agents' = saveAgent(agents, cfg)
          /\ config' = [x \in Registered \cup {a} |-> IF x = a THEN cfg ELSE config[x]]
    /\ last' = [NoCall EXCEPT !.op = "register", !.agent = a, !.at = now]
    /\ UNCHANGED <<logs, now, writtenAt, calls>>

\* a setLimit that overwrites the amount alone and keeps the window the asset
\* had before
WithLimitMerged(cfg, limitCfg) ==
    [cfg EXCEPT !.limits =
        [k \in DOMAIN cfg.limits \cup {limitCfg.asset} |->
            IF k # limitCfg.asset THEN cfg.limits[k]
            ELSE IF k \in DOMAIN cfg.limits
                 THEN [limitCfg EXCEPT !.window_seconds = cfg.limits[k].window_seconds]
                 ELSE limitCfg]]

\* config.limits[asset] = limitCfg
WithLimit(cfg, limitCfg) ==
    [cfg EXCEPT !.limits =
        [k \in DOMAIN cfg.limits \cup {limitCfg.asset} |->
            IF k = limitCfg.asset THEN limitCfg ELSE cfg.limits[k]]]

\* the arguments of a setLimit call, as the caller gave them
LimitArguments(asset, amount, window) ==
    [asset |-> Str(asset), amount |-> amount, window |-> Str(window)]

\* Agent.setLimit(asset, amount, window)
SetLimit(a, asset, amount, window) ==
    /\ a \in Registered
    /\ LET windowSeconds == parseTimeWindow(window)
           limitCfg == [asset |-> asset, amount |-> String(amount),
                        window_seconds |-> windowSeconds]
           cfg == WithLimit(config[a], limitCfg)
           call == [NoCall EXCEPT !.op = "setLimit", !.agent = a, !.at = now,
                                  !.nlogs = Len(logs),
                                  !.path = IF asset \in DOMAIN config[a].limits
                                           THEN "replace" ELSE "insert",
                                  !.params = LimitArguments(asset, amount, window)]
       IN IF windowSeconds = InvalidWindow
          THEN /\ last' = [call EXCEPT !.result = "throw"]
               /\ UNCHANGED <<agents, config>>
          ELSE /\ config' = [config EXCEPT ![a] = cfg]
               /\ agents' = saveAgent(agents, cfg)
               /\ last' = [call EXCEPT !.seconds = windowSeconds]
    /\ UNCHANGED <<logs, now, writtenAt, calls>>

\* Agent.allowAction(actionType, constraints)
AllowAction(a, actionType, constraints) ==
    /\ a \in Registered
    /\ LET rule == [action_type |-> actionType, constraints |-> constraints]
           cfg == [config[a] EXCEPT !.allow_rules = Append(@, rule)]
       IN /\ config' = [config EXCEPT ![a] = cfg]
          /\ agents' = saveAgent(agents, cfg)
    /\ last' = [NoCall EXCEPT !.op = "allowAction", !.agent = a, !.at = now]
    /\ UNCHANGED <<logs, now, writtenAt, calls>>

\* the LogEntry logDecision builds
LogEntry(a, actionType, params, allowed, reason) ==
    [timestamp |-> IsoSeconds(now), agent_id |-> a, action_type |-> actionType,
     params |-> params, allowed |-> allowed, reason |-> reason]

\* a getLogs that answers from a copy read before the latest entry was written
readLogsStale(a, readFails) ==
    LET own == getLogs(logs, a, Undefined)
    IN [threw |-> readFails, entries |-> SubSeq(own, 1, Len(own) - 1)]

\* a getLogs that swallows the exception of readData and answers no entries
readLogsSwallowingError(a, readFails) == [threw |-> FALSE, entries |-> <<>>]

\* storage.getLogs(agentId) as isWithinLimits calls it: the entries, or the
\* exception readData raised
readLogs(a, readFails) == [threw |-> readFails, entries |-> getLogs(logs, a, Undefined)]

\* what the try block of authorize decides: the branch taken, whether the
\* history was asked for, the verdict and the reason
Outcome(path, checked, allowed, reason) ==
    [path |-> path, checked |-> checked, allowed |-> allowed, reason |-> reason]
\* a TypeError thrown inside the try block, before any history was asked for
ThrownTypeError == Outcome("error", FALSE, FALSE, ReasonError("TypeError"))
\* the exception of storage.getLogs, thrown out of isWithinLimits
ThrownReadError == Outcome("error", TRUE, FALSE, ReasonError("ReadError"))
\* the exception of storage.appendLog, as the catch block reports it
ReasonWriteError == ReasonError("WriteError")
Denied == Outcome("allowlist", FALSE, FALSE, ReasonNotInAllowlist)
AllowedUnchecked == Outcome("allowed", FALSE, TRUE, NoReason)
AllowedWithinLimit == Outcome("allowed", TRUE, TRUE, NoReason)

\* "Check 2" of authorize and what follows it in the try block; allLogs is
\* what storage.getLogs gives when isWithinLimits asks for it
LimitCheck(cfg, params, allLogs, nowMs) ==
    LET amount == Get(params, "amount")
        asset == Or(Get(params, "asset"), Get(params, "token"))
    IN IF IsNull(params) THEN ThrownTypeError
       ELSE IF Truthy(amount) /\ Truthy(asset) /\ String(asset) \in DOMAIN cfg.limits
       THEN LET limitCfg == cfg.limits[String(asset)]
            IN IF asset = Str(limitCfg.asset) /\ allLogs.threw
               THEN ThrownReadError
               ELSE IF ~isWithinLimits(asset, String(amount), limitCfg, allLogs.entries, nowMs)
               THEN Outcome("limit", TRUE, FALSE, ReasonExceeds(asset, limitCfg))
               ELSE AllowedWithinLimit
       ELSE AllowedUnchecked

\* the try block with its two checks exchanged: the limit first
DecideLimitFirst(cfg, actionType, params, allLogs, nowMs) ==
    LET limit == IF IsNull(params) THEN AllowedUnchecked
                 ELSE LimitCheck(cfg, params, allLogs, nowMs)
        inAllowlist == isActionAllowedByRules(actionType, params, cfg.allow_rules)
    IN IF ~limit.allowed THEN limit
       ELSE IF inAllowlist = "throw" THEN ThrownTypeError
       ELSE IF inAllowlist = "false" THEN Denied
       ELSE IF IsNull(params) THEN ThrownTypeError
       ELSE limit

\* the try block of authorize up to its logDecision call, as a function of
\* the policy, the request, the history and the clock reading
Decide(cfg, actionType, params, allLogs, nowMs) ==
    LET inAllowlist == isActionAllowedByRules(actionType, params, cfg.allow_rules)
    IN IF inAllowlist = "throw" THEN ThrownTypeError
       ELSE IF inAllowlist = "false" THEN Denied
       ELSE LimitCheck(cfg, params, allLogs, nowMs)

\* the try block of Agent a; readFails: storage.getLogs throws
TryBlock(a, actionType, params, readFails) ==
    Decide(config[a], actionType, params, readLogs(a, readFails), now)

\* what authorize hands its caller: "true", "false", or "throw" for the
\* exception that leaves the catch block when its logDecision fails
AuthorizeResult(allowed, caught, log2Failed) ==
    IF log2Failed THEN "throw"
    ELSE IF ~caught /\ allowed THEN "true"
    ELSE "false"

\* Agent.authorize(actionType, params). fault: which storage calls throw
\* (read: getLogs in isWithinLimits; log1: appendLog in the try block;
\* log2: appendLog in the catch block); an appendLog that throws leaves the
\* document as it was
Authorize(a, actionType, params, fault) ==
    /\ a \in Registered
    /\ \E try \in {TryBlock(a, actionType, params, fault.read)} :
       LET log1Failed == try.path # "error" /\ fault.log1
           caught == try.path = "error" \/ log1Failed
           log2Failed == caught /\ fault.log2
           entry == IF ~caught
                    THEN LogEntry(a, actionType, params, try.allowed, try.reason)
                    ELSE LogEntry(a, actionType, params, FALSE,
                                  IF log1Failed THEN ReasonWriteError ELSE try.reason)
       IN /\ IF log2Failed
             THEN UNCHANGED <<logs, writtenAt>>
             ELSE /\ logs' = appendLog(logs, entry)
                  /\ writtenAt' = Append(writtenAt, now)
          /\ last' = [op |-> "authorize", agent |-> a,
                      result |-> AuthorizeResult(try.allowed, caught, log2Failed),
                      action_type |-> actionType, params |-> params, at |-> now,
                      path |-> IF caught THEN "error" ELSE try.path,
                      checked |-> try.checked, nlogs |-> Len(logs),
                      readFailed |-> try.checked /\ fault.read,
                      log1Failed |-> log1Failed, log2Failed |-> log2Failed,
                      entries |-> <<>>, seconds |-> 0]
    /\ UNCHANGED <<agents, config, now, calls>>

(* authorize as the store sees it: one read of the document for the history *)
(* (getLogs in isWithinLimits), then, inside logDecision's appendLog, one    *)
(* read of the document (readData) and one write of it (writeData). Within   *)
(* one JavaScript thread a call runs from its first line to its return; the  *)
(* callers below are threads of control that share the store file and the    *)
(* agent's policy and are not serialized against each other, so that the     *)
(* reads and writes of one call fall between those of another.               *)

Callers == {"p1", "p2"}

\* the document a readData returned: the parsed content of state.json
Document == [agents |-> agents, logs |-> logs, writtenAt |-> writtenAt]
EmptyDocument == [agents |-> EmptyObject, logs |-> <<>>, writtenAt |-> <<>>]

NoEntry ==
    [timestamp |-> 0, agent_id |-> "", action_type |-> "", params |-> NullParams,
     allowed |-> FALSE, reason |-> NoReason]

\* a caller that is in no authorize call
NoAuthorize ==
    [pc |-> "idle", agent |-> "", action_type |-> "", params |-> NullParams,
     outcome |-> Denied, history |-> <<>>, entry |-> NoEntry, data |-> EmptyDocument,
     result |-> "void"]

InFlight(p) == calls[p].pc \in {"decided", "appending", "saving"}
NoneInFlight == \A p \in Callers : ~InFlight(p)

\* authorize, from its first line to the verdict of the try block: the rule
\* check, the read of the history and the comparison with the limit
BeginAuthorize(p, a, actionType, params) ==
    /\ ~InFlight(p)
    /\ a \in Registered
    /\ \E try \in {TryBlock(a, actionType, params, FALSE)} :
          calls' = [calls EXCEPT ![p] =
                       [NoAuthorize EXCEPT !.pc = "decided", !.agent = a,
                                           !.action_type = actionType,
                                           !.params = params, !.outcome = try,
                                           !.history = IF try.checked
                                                       THEN readLogs(a, FALSE).entries
                                                       ELSE <<>>]]
    /\ UNCHANGED <<agents, logs, config, now, writtenAt, last>>

\* logDecision up to the readData of appendLog: the entry is built, with the
\* clock reading of this moment, and the document is read
AppendRead(p) ==
    /\ calls[p].pc = "decided"
    /\ LET call == calls[p]
       IN calls' = [calls EXCEPT ![p] =
                       [call EXCEPT !.pc = "appending",
                                    !.entry = LogEntry(call.agent, call.action_type,
                                                       call.params, call.outcome.allowed,
                                                       call.outcome.reason),
                                    !.data = Document]]
    /\ UNCHANGED <<agents, logs, config, now, writtenAt, last>>

\* the push and the writeData of appendLog, which replace the file by the
\* document this call read plus its entry; authorize then returns
AppendWrite(p) ==
    /\ calls[p].pc = "appending"
    /\ LET call == calls[p]
           caught == call.outcome.path = "error"
           result == AuthorizeResult(call.outcome.allowed, caught, FALSE)
       IN /\ agents' = call.data.agents
          /\ logs' = appendLog(call.data.logs, call.entry)
          /\ writtenAt' = Append(call.data.writtenAt, now)
          /\ calls' = [calls EXCEPT ![p] = [call EXCEPT !.pc = "returned",
                                                        !.result = result]]
          /\ last' = [op |-> "authorize", agent |-> call.agent, result |-> result,
                      action_type |-> call.action_type, params |-> call.params,
                      at |-> now, path |-> call.outcome.path,
                      checked |-> call.outcome.checked, nlogs |-> Len(call.data.logs),
                      readFailed |-> FALSE, log1Failed |-> FALSE, log2Failed |-> FALSE,
                      entries |-> call.history, seconds |-> 0]
    /\ UNCHANGED <<config, now>>

(* setLimit as the store sees it: the policy of the Agent object is changed, *)
(* then saveAgent reads the document (readData) and, in a later step, writes *)
(* it back with this agent's policy put in (writeData).                      *)

\* setLimit up to the readData of saveAgent, for a window that parses
SaveRead(p, a, asset, amount, window) ==
    /\ ~InFlight(p)
    /\ a \in Registered
    /\ parseTimeWindow(window) # InvalidWindow
    /\ LET limitCfg == [asset |-> asset, amount |-> String(amount),
                        window_seconds |-> parseTimeWindow(window)]
       IN config' = [config EXCEPT ![a] = WithLimit(config[a], limitCfg)]
    /\ calls' = [calls EXCEPT ![p] =
                    [NoAuthorize EXCEPT !.pc = "saving", !.agent = a, !.data = Document]]
    /\ UNCHANGED <<agents, logs, now, writtenAt, last>>

\* the assignment and the writeData of saveAgent, which replace the file by
\* the document this call read with the agent's policy put in; setLimit then
\* returns
SaveWrite(p) ==
    /\ calls[p].pc = "saving"
    /\ LET call == calls[p]
       IN /\ agents' = saveAgent(call.data.agents, config[call.agent])
          /\ logs' = call.data.logs
          /\ writtenAt' = call.data.writtenAt
          /\ calls' = [calls EXCEPT ![p] = [call EXCEPT !.pc = "saved"]]
          /\ last' = [NoCall EXCEPT !.op = "setLimit", !.agent = call.agent, !.at = now,
                                    !.nlogs = Len(call.data.logs)]
    /\ UNCHANGED <<config, now>>

\* Agent.getLogs(limit)
GetLogs(a, limit) ==
    /\ a \in Registered
    /\ last' = [NoCall EXCEPT !.op = "getLogs", !.agent = a, !.at = now,
                              !.nlogs = Len(logs), !.params = [limit |-> limit],
                              !.entries = getLogs(logs, a, limit)]
    /\ UNCHANGED <<agents, logs, config, now, writtenAt, calls>>

\* a call of parseTimeWindow(window) by itself
ParseTimeWindow(window) ==
    /\ LET seconds == parseTimeWindow(window)
           call == [NoCall EXCEPT !.op = "parseTimeWindow", !.at = now,
                                  !.params = [window |-> Str(window)]]
       IN last' = IF seconds = InvalidWindow THEN [call EXCEPT !.result = "throw"]
                  ELSE [call EXCEPT !.result = "number", !.seconds = seconds]
    /\ UNCHANGED <<agents, logs, config, now, writtenAt, calls>>

\* the clock moves on to a later reading
Tick(t) ==
    /\ t > now
    /\ now' = t
    /\ last' = NoCall
    /\ UNCHANGED <<agents, logs, config, writtenAt, calls>>

\* new JsonFileStorage(): { agents: {}, logs: [] }; no Agent object yet
Init ==
    /\ agents = EmptyObject
    /\ logs = <<>>
    /\ config = EmptyObject
    /\ now = 0
    /\ writtenAt = <<>>
    /\ last = NoCall
    /\ calls = [p \in Callers |-> NoAuthorize]

-----------------------------------------------------------------------------------------------------------------------------------------------------
(* Inputs *)

MaxLogs == 2
MaxRules == 2

Params(protocol, asset, token, amount, chain_id) ==
    [protocol |-> protocol, asset |-> asset, token |-> token, amount |-> amount,
     chain_id |-> chain_id]
Request(actionType, params) == [action_type |-> actionType, params |-> params]
Rule(actionType, constraints) == [action_type |-> actionType, constraints |-> constraints]
Limit(asset, amount, window) == [asset |-> asset, amount |-> amount, window |-> window]

OneHour == <<"1", "h">>
Ten == <<"1", "0">>
Fifteen == <<"1", "5">>
TwentyFive == <<"2", "5">>

\* the caller has registered this rule before
HasRule(a, r) == \E i \in DOMAIN config[a].allow_rules : config[a].allow_rules[i] = r

\* swap <amount> USDC on UniswapV3
Swap(amount) == Request("swap", Params(Str(UniswapV3), Undefined, Str(USDC), amount, Undefined))

-----------------------------------------------------------------------------------------------------------------------------------------------------
(* Spec: one agent, the allowlist *)

RuleInputs ==
    { Rule("swap", [protocol |-> Str(UniswapV3)]),
      Rule("swap", [protocol |-> Str(UndefinedText)]),
      Rule("swap", [chain_id |-> Str(<<"1">>), protocol |-> Str(SushiSwap)]),
      Rule("transfer", EmptyObject) }
Requests ==
    { Request("swap", Params(Str(UniswapV3), Undefined, Str(USDC), Str(Ten), Num(1))),
      Request("swap", Params(Str(SushiSwap), Undefined, Str(USDC), Str(Ten), Num(1))),
      Request("swap", Params(Undefined, Undefined, Str(USDC), Str(Ten), Undefined)),
      Request("transfer", Params(Undefined, Str(ETH), Str(USDC), Num(10), Undefined)) }
LimitInputs == { Limit(ETH, Num(25), OneHour) }

Next ==
    \/ Register("a1")
    \/ \E l \in LimitInputs : SetLimit("a1", l.asset, l.amount, l.window)
    \/ \E r \in RuleInputs :
          /\ "a1" \in Registered
          /\ Len(config["a1"].allow_rules) < MaxRules
          /\ AllowAction("a1", r.action_type, r.constraints)
    \/ \E r \in Requests :
          Len(logs) < MaxLogs /\ Authorize("a1", r.action_type, r.params, NoFault)

Spec == Init /\ [][Next]_vars

-----------------------------------------------------------------------------
(* SpecLimit: one agent, one allow-rule, the spend limit over time *)

LimitRules == { Rule("swap", [protocol |-> Str(UniswapV3)]) }
LimitRequests ==
    { Swap(Str(Ten)),
      Swap(Str(Fifteen)),
      Swap(Str(<<"a", "b", "c">>)),
      Swap(Str(<<>>)),
      Request("swap", Params(Str(SushiSwap), Undefined, Str(USDC), Str(Fifteen), Undefined)),
      Request("swap", Params(Str(UniswapV3), Str(ETH), Str(USDC), Str(Fifteen), Undefined)) }
LimitLimits == { Limit(USDC, Str(TwentyFive), OneHour) }
LimitInstants == {700, 3600000, 3600500}

NextLimit ==
    \/ Register("a1")
    \/ \E l \in LimitLimits : SetLimit("a1", l.asset, l.amount, l.window)
    \/ \E r \in LimitRules :
          /\ "a1" \in Registered
          /\ Len(config["a1"].allow_rules) < MaxRules
          /\ ~HasRule("a1", r)
          /\ AllowAction("a1", r.action_type, r.constraints)
    \/ \E r \in LimitRequests :
          Len(logs) < MaxLogs /\ Authorize("a1", r.action_type, r.params, NoFault)
    \/ \E t \in LimitInstants : Tick(t)

SpecLimit == Init /\ [][NextLimit]_vars

-----------------------------------------------------------------------------
(* SpecDecimal: one agent, amounts with a fraction *)

DecimalRequests ==
    { Swap(Str(<<"0", ".", "1">>)), Swap(Str(<<"0", ".", "2">>)), Swap(Str(<<"0", ".", "3">>)),
      Swap(Num(1)) }
DecimalLimits ==
    { Limit(USDC, Str(<<"0", ".", "3">>), OneHour), Limit(USDC, Str(<<"1", ".", "2">>), OneHour) }

NextDecimal ==
    \/ Register("a1")
    \/ \E l \in DecimalLimits : SetLimit("a1", l.asset, l.amount, l.window)
    \/ \E r \in LimitRules :
          /\ "a1" \in Registered
          /\ Len(config["a1"].allow_rules) < MaxRules
          /\ ~HasRule("a1", r)
          /\ AllowAction("a1", r.action_type, r.constraints)
    \/ \E r \in DecimalRequests :
          Len(logs) < MaxLogs /\ Authorize("a1", r.action_type, r.params, NoFault)

SpecDecimal == Init /\ [][NextDecimal]_vars

-----------------------------------------------------------------------------
(* SpecFault: two agents on one store whose calls may throw *)

AgentIds == {"a1", "a2"}
\* getLogs and the appendLog of the try block are never both reached in one call
Faults == {f \in [read : BOOLEAN, log1 : BOOLEAN, log2 : BOOLEAN] : ~(f.read /\ f.log1)}
FaultRequests ==
    { Swap(Str(Ten)), Request("swap", NullParams) }
FaultLimits == { Limit(USDC, Str(Fifteen), OneHour) }

NextFault ==
    \/ \E a \in AgentIds : Register(a)
    \/ \E a \in AgentIds, l \in FaultLimits : SetLimit(a, l.asset, l.amount, l.window)
    \/ \E a \in AgentIds, r \in LimitRules :
          /\ a \in Registered
          /\ Len(config[a].allow_rules) < MaxRules
          /\ ~HasRule(a, r)
          /\ AllowAction(a, r.action_type, r.constraints)
    \/ \E a \in AgentIds, r \in FaultRequests, f \in Faults :
          Len(logs) < MaxLogs /\ Authorize(a, r.action_type, r.params, f)

SpecFault == Init /\ [][NextFault]_vars

-----------------------------------------------------------------------------
(* SpecPolicy: one agent, setLimit over assets, amounts and window tokens *)

PolicyAssets == {USDC, ETH}
PolicyAmounts == {Str(TwentyFive), Num(15)}
PolicyRequests == { Swap(Str(Ten)) }
PolicyWindows ==
    { OneHour, <<"2", "D">>, <<"0", "h">>, <<"a", "b", "c">>, <<"-", "5", "h">> }

NextPolicy ==
    \/ Register("a1")
    \/ \E asset \in PolicyAssets, amount \in PolicyAmounts, window \in PolicyWindows :
          SetLimit("a1", asset, amount, window)
    \/ \E r \in LimitRules :
          /\ "a1" \in Registered
          /\ Len(config["a1"].allow_rules) < MaxRules
          /\ ~HasRule("a1", r)
          /\ AllowAction("a1", r.action_type, r.constraints)
    \/ \E r \in PolicyRequests :
          Len(logs) < MaxLogs /\ Authorize("a1", r.action_type, r.params, NoFault)

SpecPolicy == Init /\ [][NextPolicy]_vars

-----------------------------------------------------------------------------
(* SpecLog: two agents on one store, the log and its readers *)

LogLimits == {Undefined, Num(0), Num(1), Num(2)}

NextLog ==
    \/ \E a \in AgentIds : Register(a)
    \/ \E a \in AgentIds, l \in FaultLimits : SetLimit(a, l.asset, l.amount, l.window)
    \/ \E a \in AgentIds, r \in LimitRules :
          /\ a \in Registered
          /\ Len(config[a].allow_rules) < MaxRules
          /\ ~HasRule(a, r)
          /\ AllowAction(a, r.action_type, r.constraints)
    \/ \E a \in AgentIds, r \in PolicyRequests :
          Len(logs) < MaxLogs /\ Authorize(a, r.action_type, r.params, NoFault)
    \/ \E a \in AgentIds, limit \in LogLimits : GetLogs(a, limit)

SpecLog == Init /\ [][NextLog]_vars

-----------------------------------------------------------------------------
(* SpecParse: parseTimeWindow over window tokens *)

MaxTokenLen == 3
WindowAlphabet == {"0", "1", "2", "h", "d", "D", "x"}
\* every text over the alphabet up to the bound, and the tokens of the
\* documentation
WindowTokens ==
    UNION {[1..n -> WindowAlphabet] : n \in 0..MaxTokenLen}
        \cup { <<"2", "4", "h">>, <<"7", "d">>, <<"1", "H">>, <<"a", "b", "c">>,
               <<"-", "5", "h">>, <<"5", "x">>, <<"5">>, <<"5", "h", "h">>, <<"1", " ", "h">> }

NextParse == \E w \in WindowTokens : ParseTimeWindow(w)

SpecParse == Init /\ [][NextParse]_vars

-----------------------------------------------------------------------------
(* SpecRace: one agent, two callers of authorize that are not serialized *)

RaceRules == { Rule("swap", [protocol |-> Str(UniswapV3)]) }
RaceLimits == { Limit(USDC, Str(TwentyFive), OneHour) }
RaceRequests ==
    { Swap(Str(Ten)),
      Swap(Str(Fifteen)),
      Request("swap", Params(Str(SushiSwap), Undefined, Str(USDC), Str(Fifteen), Undefined)) }

\* calls begun and not yet returned
Begun == Cardinality({p \in Callers : InFlight(p)})

\* the policy is set up while no authorize call is under way
NextRace ==
    \/ NoneInFlight /\ Register("a1")
    \/ \E l \in RaceLimits :
          NoneInFlight /\ SetLimit("a1", l.asset, l.amount, l.window)
    \/ \E r \in RaceRules :
          /\ NoneInFlight
          /\ "a1" \in Registered
          /\ Len(config["a1"].allow_rules) < MaxRules
          /\ ~HasRule("a1", r)
          /\ AllowAction("a1", r.action_type, r.constraints)
    \/ \E p \in Callers, r \in RaceRequests :
          /\ Len(logs) + Begun < MaxLogs
          /\ BeginAuthorize(p, "a1", r.action_type, r.params)
    \/ \E p \in Callers : AppendRead(p)
    \/ \E p \in Callers : AppendWrite(p)

SpecRace == Init /\ [][NextRace]_vars

-----------------------------------------------------------------------------
(* SpecStore: two callers, each with its own agent, on one store file *)

AgentOf == [p \in Callers |-> IF p = "p1" THEN "a1" ELSE "a2"]
StoreRules == { Rule("swap", [protocol |-> Str(UniswapV3)]) }
StoreLimits == { Limit(USDC, Str(TwentyFive), OneHour) }
StoreRequests == { Swap(Str(Ten)) }

\* agents are registered and given their rules while no call is under way
NextStore ==
    \/ \E a \in AgentIds : NoneInFlight /\ Register(a)
    \/ \E a \in AgentIds, r \in StoreRules :
          /\ NoneInFlight
          /\ a \in Registered
          /\ Len(config[a].allow_rules) < MaxRules
          /\ ~HasRule(a, r)
          /\ AllowAction(a, r.action_type, r.constraints)
    \/ \E p \in Callers, l \in StoreLimits :
          /\ AgentOf[p] \in Registered
          /\ l.asset \notin DOMAIN config[AgentOf[p]].limits
          /\ SaveRead(p, AgentOf[p], l.asset, l.amount, l.window)
    \/ \E p \in Callers : SaveWrite(p)
    \/ \E p \in Callers, r \in StoreRequests :
          /\ Len(logs) + Begun < MaxLogs
          /\ BeginAuthorize(p, AgentOf[p], r.action_type, r.params)
    \/ \E p \in Callers : AppendRead(p)
    \/ \E p \in Callers : AppendWrite(p)

SpecStore == Init /\ [][NextStore]_vars

-----------------------------------------------------------------------------
(* What the last call of authorize saw and did *)

Called == last.op = "authorize"
\* the log as the call found it, and the part of it getLogs(agentId) returns
LogsBefore == SubSeq(logs, 1, last.nlogs)
OwnBefore == SelectSeq(LogsBefore, LAMBDA log : log.agent_id = last.agent)
Appended == Len(logs) - last.nlogs
Written == logs[Len(logs)]
\* the asset the request designates and the limit configured for it
RequestAsset == Or(Get(last.params, "asset"), Get(last.params, "token"))
RequestAmount == Get(last.params, "amount")
HasLimit ==
    /\ Called
    /\ Truthy(RequestAmount)
    /\ Truthy(RequestAsset)
    /\ String(RequestAsset) \in DOMAIN config[last.agent].limits
RequestLimit == config[last.agent].limits[String(RequestAsset)]
\* the limit check ran and gave its verdict
Decided == HasLimit /\ last.path \in {"allowed", "limit"}
EntryAsset(log) == Or(Get(log.params, "asset"), Get(log.params, "token"))

\* an amount as a decimal number, in hundredths; what is no number counts zero
Cents(v) ==
    IF v.kind = "undefined" THEN 0
    ELSE LET d == DecimalPrefix(String(v))
         IN DigitsToInt(d.int \o d.frac) * 10^(2 - Len(d.frac))
IsDecimal(v) ==
    /\ v.kind # "undefined"
    /\ LET d == DecimalPrefix(String(v))
       IN d.int # <<>> /\ Len(d.int) + Len(d.frac) + (IF d.frac = <<>> THEN 0 ELSE 1) = Len(String(v))

\* hundredths spent with permission on the request's asset by the first i
\* entries of the log, counting the entries written at `since` or later
RECURSIVE CentsSpentSince(_, _)
CentsSpentSince(i, since) ==
    IF i = 0 THEN 0
    ELSE CentsSpentSince(i - 1, since)
         + IF /\ logs[i].agent_id = last.agent
              /\ logs[i].allowed
              /\ EntryAsset(logs[i]) = RequestAsset
              /\ writtenAt[i] >= since
           THEN Cents(Get(logs[i].params, "amount"))
           ELSE 0
\* the same sum over the entries whose recorded timestamp is `since` or later
RECURSIVE CentsStampedSince(_, _)
CentsStampedSince(i, since) ==
    IF i = 0 THEN 0
    ELSE CentsStampedSince(i - 1, since)
         + IF /\ logs[i].agent_id = last.agent
              /\ logs[i].allowed
              /\ EntryAsset(logs[i]) = RequestAsset
              /\ DateOf(logs[i].timestamp) >= since
           THEN Cents(Get(logs[i].params, "amount"))
           ELSE 0
WindowStart == last.at - RequestLimit.window_seconds * MsPerSecond

\* the verdict isWithinLimits gives the request over a history
VerdictOver(history) ==
    isWithinLimits(RequestAsset, String(RequestAmount), RequestLimit, history, last.at)

-----------------------------------------------------------------------------
(* C1 *)

\* C1 (spend ceiling): when authorize returns true for an amount x on an
\* asset that has a limit (max, window), x plus the amounts of the agent's
\* earlier allowed entries for that asset written within the last `window`
\* seconds is at most max.
C1_SpendCeiling ==
    (HasLimit /\ last.result = "true")
        => CentsSpentSince(last.nlogs, WindowStart) + Cents(RequestAmount)
              <= Cents(Str(RequestLimit.amount))

-----------------------------------------------------------------------------
(* C2, C10 *)

\* a rule as the allowlist is described: of the request's action type, every
\* constraint key present in params, its value string-equal to the constraint
RuleSatisfied(rule, actionType, params) ==
    /\ rule.action_type = actionType
    /\ \A key \in DOMAIN rule.constraints :
          /\ Get(params, key).kind # "undefined"
          /\ String(Get(params, key)) = String(rule.constraints[key])
SomeRuleSatisfied ==
    \E i \in DOMAIN config[last.agent].allow_rules :
        RuleSatisfied(config[last.agent].allow_rules[i], last.action_type, last.params)

\* C2 (default deny): when no allow rule of the agent has the request's
\* action type with all its constraints satisfied, authorize returns false and
\* the entry it logs is a denial with the reason 'Action not in allowlist'.
C2_DefaultDeny ==
    (Called /\ ~SomeRuleSatisfied)
        => /\ last.result = "false"
           /\ Appended = 1
           /\ ~Written.allowed
           /\ Written.reason = ReasonNotInAllowlist

\* C10 (rule matching): the allowlist lets a request through exactly when
\* some rule has its action type and, for every constraint key, the key is
\* present in params with a string-equal value; a rule without constraints
\* matches every request of its type.
C10_RuleMatching ==
    Called => (last.path # "allowlist" <=> SomeRuleSatisfied)

-----------------------------------------------------------------------------
(* C3, C4, C5 *)

OwnCount(stored) == Len(getLogs(stored, last.agent, Undefined))

\* C3 as stated: every call of authorize, whatever it returns, makes the
\* agent's log one entry longer.
C3_OneEntryPerCall ==
    Called => OwnCount(logs) = OwnCount(LogsBefore) + 1

\* C3 (log growth), amended: a call of authorize that returns a verdict makes
\* the agent's log exactly one entry longer, never two; a call that raises
\* because the log could not be written leaves the log as it was.
C3_OneEntryPerVerdict ==
    Called =>
        IF last.result = "throw"
        THEN Appended = 0 /\ last.log2Failed
        ELSE /\ Appended = 1
             /\ Written.agent_id = last.agent
             /\ OwnCount(logs) = OwnCount(LogsBefore) + 1
             /\ Written.allowed <=> last.result = "true"

\* the write of the try block failed, the write of the handler succeeded
C3_OneEntryAfterFailedWrite ==
    /\ Called
    /\ last.log1Failed
    /\ last.result = "false"
    /\ Appended = 1
    /\ last.nlogs > 0

\* an exception was raised inside the try block before any log write: the
\* log read of the limit check failed, or params was null
InternalFault ==
    /\ Called
    /\ \/ last.readFailed
       \/ /\ IsNull(last.params)
          /\ \E i \in DOMAIN config[last.agent].allow_rules :
                config[last.agent].allow_rules[i].action_type = last.action_type

C5_LogFailureReturnsFalse ==
    (Called /\ (last.log1Failed \/ last.log2Failed)) => last.result = "false"

-----------------------------------------------------------------------------
(* C6 .. C9 *)

\* C6 (inclusive boundary): with S the sum of the amounts allowed on the asset
\* inside the window, a request for x is allowed exactly when S + x <= max.
C6_InclusiveBoundary ==
    (Decided /\ IsDecimal(RequestAmount))
        => (last.result = "true"
              <=> CentsStampedSince(last.nlogs, WindowStart) + Cents(RequestAmount)
                     <= Cents(Str(RequestLimit.amount)))

\* C7 (denied attempts cost nothing): the limit check gives the verdict it
\* would give had no denied entry ever been written.
C7_DeniedNotCounted ==
    Decided =>
        (last.result = "true" <=> VerdictOver(SelectSeq(OwnBefore, LAMBDA log : log.allowed)))

\* a request allowed although a denied entry in the window, added to it,
\* exceeds the limit
C7_AllowedDespiteDeniedAttempt ==
    /\ Decided
    /\ last.result = "true"
    /\ \E i \in DOMAIN OwnBefore :
          /\ ~OwnBefore[i].allowed
          /\ EntryAsset(OwnBefore[i]) = RequestAsset
          /\ DateOf(OwnBefore[i].timestamp) >= WindowStart
          /\ Cents(Get(OwnBefore[i].params, "amount")) + Cents(RequestAmount)
                > Cents(Str(RequestLimit.amount))

\* more than the window has passed since every allowed spend on the asset
AllSpendsExpired ==
    \A i \in 1..last.nlogs :
        (logs[i].agent_id = last.agent /\ logs[i].allowed /\ EntryAsset(logs[i]) = RequestAsset)
            => writtenAt[i] < WindowStart

\* C8 (window expiry): an allowed entry stamped before now - window adds
\* nothing to the sum; once more than the window has passed since every
\* allowed spend on the asset, a request is allowed exactly when its amount is
\* at most max.
C8_WindowExpiry ==
    Decided =>
        /\ last.result = "true"
              <=> VerdictOver(SelectSeq(OwnBefore,
                                 LAMBDA log : DateOf(log.timestamp) >= WindowStart))
        /\ (IsDecimal(RequestAmount) /\ AllSpendsExpired)
              => (last.result = "true"
                    <=> Cents(RequestAmount) <= Cents(Str(RequestLimit.amount)))

\* a request allowed although an allowed spend older than the window, added
\* to it, exceeds the limit
C8_AllowedAfterExpiry ==
    /\ Decided
    /\ last.result = "true"
    /\ \E i \in DOMAIN OwnBefore :
          /\ OwnBefore[i].allowed
          /\ EntryAsset(OwnBefore[i]) = RequestAsset
          /\ DateOf(OwnBefore[i].timestamp) < WindowStart
          /\ Cents(Get(OwnBefore[i].params, "amount")) + Cents(RequestAmount)
                > Cents(Str(RequestLimit.amount))

\* C9 (corrupt history): an allowed entry whose amount is no number adds
\* zero to the sum; the check gives the verdict it would give without it.
C9_CorruptAmountCountsZero ==
    Decided =>
        (last.result = "true"
           <=> VerdictOver(SelectSeq(OwnBefore,
                              LAMBDA log : IsDecimal(Get(log.params, "amount")))))

-----------------------------------------------------------------------------
(* C14 *)

\* "<n>h" or "<n>d" in either letter case, n a positive integer
WindowCount(w) == DigitsToInt(SubSeq(w, 1, Len(w) - 1))
IsHours(w) == w[Len(w)] \in {"h", "H"}
WellFormedWindow(w) ==
    /\ Len(w) >= 2
    /\ w[Len(w)] \in {"h", "H", "d", "D"}
    /\ \A i \in 1..(Len(w) - 1) : IsDigit(w[i])
    /\ WindowCount(w) > 0

\* C14 (window parsing): parseTimeWindow of "<n>h" is n * 3600 and of "<n>d"
\* is n * 86400 for every positive integer n, in either letter case; for a
\* token of any other shape it fails and returns no number.
C14_WindowParsing ==
    last.op = "parseTimeWindow" =>
        LET w == last.params.window.s
        IN IF WellFormedWindow(w)
           THEN /\ last.result = "number"
                /\ last.seconds = WindowCount(w) * (IF IsHours(w) THEN 3600 ELSE 86400)
           ELSE last.result = "throw"

-----------------------------------------------------------------------------
(* C11, C15, C20 *)

\* the step is a call of setLimit, and the call returned
SetLimitReturned == last'.op = "setLimit" /\ last'.result # "throw"
\* the LimitConfig the arguments of the call describe
ExpectedLimit(arguments) ==
    LET w == arguments.window.s
    IN [asset |-> arguments.asset.s, amount |-> String(arguments.amount),
        window_seconds |-> WindowCount(w) * (IF IsHours(w) THEN 3600 ELSE 86400)]

\* C11 (setLimit replaces by key): after a setLimit call the policy holds one
\* LimitRule per asset, the rule of the call's asset is exactly the amount and
\* window of this call, the limits of the other assets and the allow-rules
\* are as before, and the stored policy is the same policy.
C11_SetLimitReplacesByKey ==
    [][SetLimitReturned =>
          LET a == last'.agent
              asset == last'.params.asset.s
          IN /\ DOMAIN config'[a].limits = DOMAIN config[a].limits \cup {asset}
             /\ config'[a].limits[asset] = ExpectedLimit(last'.params)
             /\ \A k \in DOMAIN config'[a].limits : config'[a].limits[k].asset = k
             /\ \A k \in DOMAIN config[a].limits \ {asset} :
                   config'[a].limits[k] = config[a].limits[k]
             /\ config'[a].allow_rules = config[a].allow_rules
             /\ agents'[a].limits = config'[a].limits
             /\ agents'[a].allow_rules = agents[a].allow_rules
      ]_vars

\* a setLimit came back on an asset that had a limit, next to another asset's
\* limit and an allow-rule
C11_LimitReplaced ==
    /\ last.op = "setLimit"
    /\ last.result # "throw"
    /\ last.path = "replace"
    /\ DOMAIN config[last.agent].limits = PolicyAssets
    /\ config[last.agent].allow_rules # <<>>

\* C15 (malformed window): setLimit with a malformed window token raises to
\* the caller and leaves the stored policy, the in-memory policy and the log
\* as they were.
C15_MalformedWindowRaises ==
    [][(last'.op = "setLimit" /\ ~WellFormedWindow(last'.params.window.s))
          => /\ last'.result = "throw"
             /\ UNCHANGED <<agents, config, logs>>
      ]_vars

\* C20 (positive window): every LimitRule of every policy, in memory and
\* stored, has a window longer than 0 seconds.
C20_PositiveWindow ==
    \A a \in Registered :
        /\ \A k \in DOMAIN config[a].limits : config[a].limits[k].window_seconds > 0
        /\ \A k \in DOMAIN agents[a].limits : agents[a].limits[k].window_seconds > 0

-----------------------------------------------------------------------------
(* C12, C13 *)

\* C12 (append-only log): whatever is called, the stored log only grows at
\* its end; every entry written keeps its position and all its fields.
C12_AppendOnly ==
    [][/\ Len(logs') >= Len(logs)
       /\ SubSeq(logs', 1, Len(logs)) = logs
      ]_vars

\* a call that saves a policy or reads the log found entries in the store
C12_CallOverWrittenLog ==
    /\ Len(logs) >= 2
    /\ last.op \in {"register", "setLimit", "allowAction", "getLogs"}
    /\ last.nlogs = Len(logs)

\* the entries of one agent, in the order they were written
EntriesOf(a) == SelectSeq(logs, LAMBDA log : log.agent_id = a)
\* the k latest of a sequence, in its order
Latest(k, entries) == SubSeq(entries, Len(entries) - k + 1, Len(entries))

\* C13 (getLogs with a limit): for every limit that is given, getLogs returns
\* the min(limit, n) most recent of the agent's n entries, in write order,
\* and no entry of another agent.
C13_GetLogsLimit ==
    (last.op = "getLogs" /\ last.params.limit.kind = "number") =>
        LET own == EntriesOf(last.agent)
            limit == last.params.limit.n
        IN last.entries = Latest(IF limit < Len(own) THEN limit ELSE Len(own), own)

-----------------------------------------------------------------------------
(* C16 *)

\* a second run of the last call's try block from the same policy, the same
\* history and the same request, with the clock reading t
ReplayAt(t) ==
    Decide(config[last.agent], last.action_type, last.params,
           [threw |-> FALSE, entries |-> OwnBefore], t)
ReplayInstants == LimitInstants \cup {0}

-----------------------------------------------------------------------------
(* C18, C19 *)

\* what the rule check of the last call gives
RuleCheck ==
    isActionAllowedByRules(last.action_type, last.params, config[last.agent].allow_rules)
\* the request, added to what the history holds in the window, exceeds the limit
WouldExceed ==
    /\ HasLimit
    /\ ~VerdictOver(OwnBefore)
    /\ CentsStampedSince(last.nlogs, WindowStart) + Cents(RequestAmount)
          > Cents(Str(RequestLimit.amount))

\* C18 (check ordering): the rule check runs first and the history is read
\* only after it passed; a request that fails the allowlist is denied with
\* the allowlist reason even when it would exceed its limit; the entry is in
\* the log when the verdict reaches the caller.
C18_CheckOrdering ==
    Called =>
        /\ RuleCheck = "false" =>
              /\ last.result = "false"
              /\ ~last.checked
              /\ Appended = 1
              /\ ~Written.allowed
              /\ Written.reason = ReasonNotInAllowlist
        /\ last.checked => RuleCheck = "true"
        /\ last.result \in {"true", "false"} =>
              /\ Appended = 1
              /\ Written.agent_id = last.agent
              /\ Written.action_type = last.action_type
              /\ Written.params = last.params
              /\ Written.allowed <=> last.result = "true"

\* a request outside the allowlist that would exceed its limit as well
C18_OutsideAllowlistAndOverLimit ==
    /\ Called
    /\ RuleCheck = "false"
    /\ WouldExceed
    /\ Written.reason = ReasonNotInAllowlist

\* the asset a parameter mapping designates: its asset field when it has
\* one, its token field otherwise
Designated(params) ==
    IF Truthy(Get(params, "asset")) THEN Get(params, "asset") ELSE Get(params, "token")
LimitApplies ==
    /\ Truthy(RequestAmount)
    /\ Truthy(Designated(last.params))
    /\ String(Designated(last.params)) \in DOMAIN config[last.agent].limits

\* C19 (when the limit check applies): a request that matched the allowlist
\* goes through the limit check exactly when it carries a non-empty amount,
\* an asset or token and a limit exists for that asset; otherwise it is
\* allowed without the history being read; the asset field designates the
\* asset before the token field, in the request and in the history.
C19_WhenLimitCheckApplies ==
    (Called /\ ~IsNull(last.params) /\ RuleCheck = "true") =>
        /\ last.checked <=> LimitApplies
        /\ ~LimitApplies => last.result = "true"
        /\ LimitApplies =>
              (last.result = "true"
                 <=> isWithinLimits(Designated(last.params), String(RequestAmount),
                                    config[last.agent].limits[String(Designated(last.params))],
                                    SelectSeq(OwnBefore,
                                        LAMBDA log : Designated(log.params) = Designated(last.params)),
                                    last.at))

\* a request with an asset and a token, no limit on its asset, allowed
\* although the token has a limit that its amount would exceed
C19_AssetBeforeToken ==
    /\ Called
    /\ last.result = "true"
    /\ ~last.checked
    /\ Truthy(Get(last.params, "asset"))
    /\ Truthy(Get(last.params, "token"))
    /\ String(Get(last.params, "token")) \in DOMAIN config[last.agent].limits
    /\ \E i \in DOMAIN OwnBefore :
          /\ OwnBefore[i].allowed
          /\ Designated(OwnBefore[i].params) = Get(last.params, "token")
          /\ DateOf(OwnBefore[i].timestamp) >= last.at - MsPerSecond * SecondsPerHour
          /\ Cents(Get(OwnBefore[i].params, "amount")) + Cents(RequestAmount)
                > Cents(Str(config[last.agent].limits[String(Get(last.params, "token"))].amount))

-----------------------------------------------------------------------------
(* C17 *)

\* hundredths spent with permission on the request's asset by the first i
\* entries of the history the call read
RECURSIVE CentsInHistory(_)
CentsInHistory(i) ==
    IF i = 0 THEN 0
    ELSE CentsInHistory(i - 1)
         + IF last.entries[i].allowed /\ EntryAsset(last.entries[i]) = RequestAsset
           THEN Cents(Get(last.entries[i].params, "amount"))
           ELSE 0

\* caller p has returned true from a call that was compared with the limit
ReturnedTrueChecked(p) ==
    /\ calls[p].pc = "returned"
    /\ calls[p].result = "true"
    /\ calls[p].outcome.checked

-----------------------------------------------------------------------------
(* C21 *)

\* the entries of agent b in a log
LogOf(stored, b) == SelectSeq(stored, LAMBDA log : log.agent_id = b)

\* what authorize decides for the last request when the entries of every
\* other agent are erased from the log the call found
DecidedAlone ==
    Decide(config[last.agent], last.action_type, last.params,
           [threw |-> FALSE, entries |-> LogOf(LogsBefore, last.agent)], last.at)

\* C21 (cross-agent isolation): a setLimit, allowAction or authorize call on
\* one agent leaves the stored policy and the log entries of every other
\* agent on the store as they were, and an authorize call returns what it
\* would return had the other agents' calls never been logged.
C21_CrossAgentIsolation ==
    /\ [](Called => last.result = AuthorizeResult(DecidedAlone.allowed,
                                                   DecidedAlone.path = "error", FALSE))
    /\ [][last'.op \in {"setLimit", "allowAction", "authorize"}
             => \A b \in Registered \ {last'.agent} :
                   /\ agents'[b] = agents[b]
                   /\ LogOf(logs', b) = LogOf(logs, b)
         ]_vars

\* a call is permitted under its agent's limit although the permitted spend of
\* another agent on the same asset, added to its amount, passes that limit
C21_OtherAgentSpentBefore ==
    /\ Decided
    /\ last.result = "true"
    /\ \E i \in 1..last.nlogs :
          /\ logs[i].agent_id # last.agent
          /\ logs[i].allowed
          /\ EntryAsset(logs[i]) = RequestAsset
          /\ Cents(Get(logs[i].params, "amount")) + Cents(RequestAmount)
                > Cents(Str(RequestLimit.amount))

-----------------------------------------------------------------------------
(* C22 *)

\* the entry caller p wrote in the call it has returned from is in the store
EntryPresent(p) == \E i \in DOMAIN logs : logs[i] = calls[p].entry
\* the policy caller p wrote in the setLimit it has returned from is in the store
PolicyPresent(p) ==
    /\ calls[p].agent \in DOMAIN agents
    /\ agents[calls[p].agent] = JsonConfig(config[calls[p].agent])

\* C22 (no lost entries under interleaving): with two callers on one store,
\* each with its own agent, whose appendLog and saveAgent interleave at the
\* file read and the file write, the log entry a caller's completed authorize
\* wrote and the policy a caller's completed setLimit wrote are in the store.
C22_NoLostEntries ==
    \A p \in Callers :
        /\ calls[p].pc = "returned" => EntryPresent(p)
        /\ calls[p].pc = "saved" => PolicyPresent(p)

====
